---- MODULE Spec2Model ----
(***************************************************************************)
(* Model of tools/expotools/src/commands/WorkflowDispatch.ts: the          *)
(* `workflow-dispatch` command.  One invocation of main() is modelled as a *)
(* state machine whose steps are the stretches of code between awaits.     *)
(*                                                                         *)
(* Strings are sequences of symbols.  A symbol is a letter or one of the   *)
(* fixed chunks ".github/workflows/", ".yml" (and mixed-case variants of   *)
(* them), so that toLowerCase, string concatenation and localeCompare are  *)
(* computed rather than assumed.                                           *)
(***************************************************************************)
EXTENDS Integers, Sequences, FiniteSets, TLC

(* ------------------------------ bounds -------------------------------- *)

\* Largest number of entries in the remote listing response.
MaxWorkflows == 2

(* ------------------------------ values -------------------------------- *)

\* JavaScript `undefined` for an optional string (CommandOptions.ref?, workflowName).
Undefined == <<"<undefined>">>

\* `null` as returned by findWorkflowIdAsync (workflow?.id ?? null).
NullId == -1

\* HTTP 204 "no content", the status dispatchWorkflowAsync accepts.
NoContent == 204

DirLower == ".github/workflows/"
DirMixed == ".GitHub/Workflows/"
ExtLower == ".yml"
ExtUpper == ".YML"

\* Truthiness of an optional string: undefined and "" are falsy.
Falsy(s) == s = Undefined \/ s = <<>>

\* Truthiness of a workflow id: null/undefined and 0 are falsy.
FalsyId(id) == id = NullId \/ id = 0

(* ------------------------- string functions --------------------------- *)

ToLowerSym(c) ==
    CASE c = "A" -> "a"
      [] c = "B" -> "b"
      [] c = DirMixed -> DirLower
      [] c = ExtUpper -> ExtLower
      [] OTHER -> c

\* String.prototype.toLowerCase
toLowerCase(s) == [i \in 1..Len(s) |-> ToLowerSym(s[i])]

\* Primary collation weight: letters compare by base letter, case ignored.
PrimaryWeight(c) ==
    CASE ToLowerSym(c) = "a" -> 1
      [] ToLowerSym(c) = "b" -> 2
      [] OTHER -> 0

\* Tertiary collation weight: lower case sorts before upper case.
CaseWeight(c) == IF ToLowerSym(c) = c THEN 0 ELSE 1

RECURSIVE LexCompare(_, _)
LexCompare(x, y) ==
    IF x = <<>> /\ y = <<>> THEN 0
    ELSE IF x = <<>> THEN -1
    ELSE IF y = <<>> THEN 1
    ELSE IF Head(x) < Head(y) THEN -1
    ELSE IF Head(x) > Head(y) THEN 1
    ELSE LexCompare(Tail(x), Tail(y))

\* String.prototype.localeCompare: base letters first, then case.
localeCompare(a, b) ==
    LET p == LexCompare([i \in 1..Len(a) |-> PrimaryWeight(a[i])],
                        [i \in 1..Len(b) |-> PrimaryWeight(b[i])])
    IN  IF p # 0 THEN p
        ELSE LexCompare([i \in 1..Len(a) |-> CaseWeight(a[i])],
                        [i \in 1..Len(b) |-> CaseWeight(b[i])])

(* ------------------------------ inputs -------------------------------- *)

PathA == <<DirLower, "a", ExtLower>>
PathBMixed == <<DirMixed, "B", ExtUpper>>
PathB == <<DirLower, "b", ExtLower>>

\* Shapes of the entries the remote listing may return (the id is added
\* when the response is built).
Templates ==
    { [name |-> <<"a">>, path |-> PathA,      state |-> "active"],
      [name |-> <<"A">>, path |-> PathBMixed, state |-> "active"],
      [name |-> <<"b">>, path |-> PathB,      state |-> "active"],
      [name |-> <<"a">>, path |-> PathB,      state |-> "disabled_manually"],
      [name |-> <<>>,    path |-> PathA,      state |-> "active"],
      [name |-> <<"b">>, path |-> <<>>,       state |-> "active"] }

LocalPaths == {PathA, PathBMixed, PathB}

\* Working copies: every workflow file present, or exactly one missing.
FileSystems == {LocalPaths} \cup {LocalPaths \ {p} : p \in LocalPaths}

WorkflowNames == {Undefined, <<>>, <<"a">>, <<"B">>, <<"a", "b">>}

Refs == {Undefined, <<>>, <<"m">>}

Branches == {<<"d">>}

Statuses == {NoContent, 200, 404}

\* response.data.workflows: up to MaxWorkflows entries with distinct ids.
Responses ==
    UNION { { [i \in 1..n |-> [id    |-> i,
                                name  |-> t[i].name,
                                path  |-> t[i].path,
                                state |-> t[i].state]] : t \in [1..n -> Templates] }
            : n \in 0..MaxWorkflows }

(* ------------------------------ state --------------------------------- *)

VARIABLES
    token,          \* process.env.GITHUB_TOKEN is set
    ci,             \* process.env.CI is set
    workflowName,   \* the positional argument
    optRef,         \* options.ref
    fs,             \* paths that exist under EXPO_DIR
    pc,             \* position of main()
    error,          \* the error main() threw, "" if none
    response,       \* response.data.workflows of the listing GET
    results,        \* per entry: "pending", "true" or "false" (the filter callback's promise)
    order,          \* indices in the order their existence checks completed
    workflows,      \* the list getWorkflowsAsync returned
    promptChoices,  \* choices handed to inquirer.prompt, <<>> if never prompted
    prompted,       \* inquirer.prompt has been called
    workflowId,     \* result of findWorkflowIdAsync
    ref,            \* the resolved reference
    branchQueried,  \* Git.getCurrentBranchNameAsync has been called
    branch,         \* what it returned, Undefined before
    getCount,       \* listing GET requests issued
    postCount,      \* dispatch POST requests issued
    postedId,       \* workflow_id of the POST
    postedRef,      \* ref of the POST
    status,         \* response.status of the POST, 0 before a response
    successLogged,  \* logger.success was called
    errorLogged,    \* logger.error was called
    exitCode        \* process exit code (0 unless process.exit(1) ran)

vars == <<token, ci, workflowName, optRef, fs, pc, error, response, results, order,
          workflows, promptChoices, prompted, workflowId, ref, branchQueried, branch,
          getCount, postCount, postedId, postedRef, status, successLogged,
          errorLogged, exitCode>>

inputs == <<token, ci, workflowName, optRef, fs>>
listing == <<response, results, order, workflows>>
resolution == <<promptChoices, prompted, workflowId, ref, branchQueried, branch>>
remote == <<getCount, postCount, postedId, postedRef>>
outcome == <<status, successLogged, errorLogged, exitCode>>

Init ==
    /\ token \in BOOLEAN
    /\ ci \in BOOLEAN
    /\ workflowName \in WorkflowNames
    /\ optRef \in Refs
    /\ fs \in FileSystems
    /\ pc = "start"
    /\ error = ""
    /\ response = <<>>
    /\ results = <<>>
    /\ order = <<>>
    /\ workflows = <<>>
    /\ promptChoices = <<>>
    /\ prompted = FALSE
    /\ workflowId = NullId
    /\ ref = Undefined
    /\ branchQueried = FALSE
    /\ branch = Undefined
    /\ getCount = 0
    /\ postCount = 0
    /\ postedId = NullId
    /\ postedRef = Undefined
    /\ status = 0
    /\ successLogged = FALSE
    /\ errorLogged = FALSE
    /\ exitCode = 0

\* A thrown error leaves main(): nothing after the throw runs.
Throw(e) == pc' = "failed" /\ error' = e

(* ------------------------- getWorkflowsAsync -------------------------- *)

\* fs.pathExists(path.join(EXPO_DIR, workflow.path))
pathExists(p) == p \in fs

\* The part of the filter callback evaluated before it awaits pathExists:
\* workflow.name && workflow.path && workflow.state === 'active'
NeedsCheck(w) == w.name # <<>> /\ w.path # <<>> /\ w.state = "active"

\* The filter callback with `await` dropped: a pending promise is truthy.
FilterCallbackNoAwait(w, exists) == NeedsCheck(w)

\* The filter callback: Boolean(name && path && state === 'active' && exists)
FilterCallback(w, exists) == NeedsCheck(w) /\ exists

\* filterAsync joins on every callback: Promise.all(arr.map(filter)).
filterAsyncSettled(res) == \A i \in 1..Len(res) : res[i] # "pending"

\* filterAsync keeps the items whose callback resolved true, in array order.
RECURSIVE filterAsyncResult(_, _)
filterAsyncResult(arr, res) ==
    IF arr = <<>> THEN <<>>
    ELSE (IF Head(res) = "true" THEN <<Head(arr)>> ELSE <<>>)
         \o filterAsyncResult(Tail(arr), Tail(res))

\* Insertion that puts w before the elements equal to it (not stable).
RECURSIVE InsertBeforeEqual(_, _)
InsertBeforeEqual(w, s) ==
    IF s = <<>> THEN <<w>>
    ELSE IF localeCompare(w.name, Head(s).name) <= 0 THEN <<w>> \o s
    ELSE <<Head(s)>> \o InsertBeforeEqual(w, Tail(s))

\* One step of the stable sort: w goes after every element not greater than it.
RECURSIVE Insert(_, _)
Insert(w, s) ==
    IF s = <<>> THEN <<w>>
    ELSE IF localeCompare(w.name, Head(s).name) < 0 THEN <<w>> \o s
    ELSE <<Head(s)>> \o Insert(w, Tail(s))

\* workflows.sort((a, b) => a.name.localeCompare(b.name)); Array.prototype.sort
\* is stable.
RECURSIVE Sort(_)
Sort(arr) ==
    IF arr = <<>> THEN <<>>
    ELSE Insert(arr[Len(arr)], Sort(SubSeq(arr, 1, Len(arr) - 1)))

(* ------------------------ findWorkflowIdAsync ------------------------- *)

\* The find predicate with the name compared as is (no toLowerCase).
MatchesSlugExact(w, slug) ==
    \/ w.name = slug
    \/ toLowerCase(w.path) = <<DirLower>> \o slug \o <<ExtLower>>

\* The predicate of workflows.find(...)
MatchesSlug(w, slug) ==
    \/ toLowerCase(w.name) = slug
    \/ toLowerCase(w.path) = <<DirLower>> \o slug \o <<ExtLower>>

\* const slug = workflowName.toLowerCase(); workflows.find(...)?.id ?? null
findWorkflowId(ws, name) ==
    LET slug == toLowerCase(name)
        hits == {k \in 1..Len(ws) : MatchesSlug(ws[k], slug)}
    IN  IF hits = {} THEN NullId
        ELSE ws[CHOOSE k \in hits : \A j \in hits : k <= j].id

\* choices: workflows.map((workflow) => ({ name: workflow.name, value: workflow.id }))
PromptChoices(ws) == [k \in 1..Len(ws) |-> [name |-> ws[k].name, value |-> ws[k].id]]

(* ------------------------------ actions ------------------------------- *)

\* main() without the GITHUB_TOKEN check.
MainStartNoTokenCheck ==
    /\ pc = "start"
    /\ getCount' = getCount + 1
    /\ pc' = "listing"
    /\ UNCHANGED <<inputs, error, listing, resolution, postCount, postedId, postedRef,
                   outcome>>

\* main(): the token check, then the listing GET is issued.
MainStart ==
    /\ pc = "start"
    /\ IF ~token
       THEN /\ Throw("token")
            /\ UNCHANGED getCount
       ELSE /\ getCount' = getCount + 1
            /\ pc' = "listing"
            /\ UNCHANGED error
    /\ UNCHANGED <<inputs, listing, resolution, postCount, postedId, postedRef, outcome>>

\* The GET returns; filterAsync starts one callback per entry, each of which
\* either resolves false at once or waits for its existence check.
ListingResponse ==
    /\ pc = "listing"
    /\ \E resp \in Responses :
          /\ response' = resp
          /\ results' = [i \in 1..Len(resp) |->
                            IF NeedsCheck(resp[i]) THEN "pending" ELSE "false"]
    /\ pc' = "filtering"
    /\ UNCHANGED <<inputs, error, order, workflows, resolution, remote, outcome>>

\* The GET throws (network failure, error status).
ListingFails ==
    /\ pc = "listing"
    /\ Throw("get")
    /\ UNCHANGED <<inputs, listing, resolution, remote, outcome>>

\* One outstanding existence check completes and its callback resolves.
PathExistsCompletes(i) ==
    /\ pc = "filtering"
    /\ results[i] = "pending"
    /\ results' = [results EXCEPT ![i] =
                      IF FilterCallback(response[i], pathExists(response[i].path))
                      THEN "true" ELSE "false"]
    /\ order' = Append(order, i)
    /\ UNCHANGED <<inputs, pc, error, response, workflows, resolution, remote, outcome>>

\* getWorkflowsAsync collecting the entries as their checks complete.
GetWorkflowsReturnInCompletionOrder ==
    /\ pc = "filtering"
    /\ filterAsyncSettled(results)
    /\ workflows' = Sort(filterAsyncResult([k \in 1..Len(order) |-> response[order[k]]],
                                          [k \in 1..Len(order) |-> results[order[k]]]))
    /\ pc' = "find"
    /\ UNCHANGED <<inputs, error, response, results, order, resolution, remote, outcome>>

\* `await filterAsync(...)` resumes once every callback has resolved; the
\* filtered list is sorted and returned.
GetWorkflowsReturn ==
    /\ pc = "filtering"
    /\ filterAsyncSettled(results)
    /\ workflows' = Sort(filterAsyncResult(response, results))
    /\ pc' = "find"
    /\ UNCHANGED <<inputs, error, response, results, order, resolution, remote, outcome>>

\* findWorkflowIdAsync prompting whenever no name is given, CI or not.
FindWorkflowIdNoCICheck ==
    /\ pc = "find"
    /\ IF Falsy(workflowName)
       THEN /\ promptChoices' = PromptChoices(workflows)
            /\ prompted' = TRUE
            /\ pc' = "prompt"
            /\ UNCHANGED <<error, workflowId>>
       ELSE /\ workflowId' = findWorkflowId(workflows, workflowName)
            /\ pc' = "ref"
            /\ UNCHANGED <<error, promptChoices, prompted>>
    /\ UNCHANGED <<inputs, listing, ref, branchQueried, branch, remote, outcome>>

\* findWorkflowIdAsync up to its return or to the prompt.
FindWorkflowId ==
    /\ pc = "find"
    /\ IF Falsy(workflowName)
       THEN IF ci
            THEN /\ Throw("ci")
                 /\ UNCHANGED <<promptChoices, prompted, workflowId>>
            ELSE /\ promptChoices' = PromptChoices(workflows)
                 /\ prompted' = TRUE
                 /\ pc' = "prompt"
                 /\ UNCHANGED <<error, workflowId>>
       ELSE /\ workflowId' = findWorkflowId(workflows, workflowName)
            /\ pc' = "ref"
            /\ UNCHANGED <<error, promptChoices, prompted>>
    /\ UNCHANGED <<inputs, listing, ref, branchQueried, branch, remote, outcome>>

\* The user picks one of the listed choices.
PromptAnswer ==
    /\ pc = "prompt"
    /\ \E k \in 1..Len(promptChoices) : workflowId' = promptChoices[k].value
    /\ pc' = "ref"
    /\ UNCHANGED <<inputs, error, listing, promptChoices, prompted, ref, branchQueried,
                   branch, remote, outcome>>

\* The reference taken from the branch query first, options.ref as fallback.
ResolveRefBranchFirst ==
    /\ pc = "ref"
    /\ branchQueried' = TRUE
    /\ pc' = "branch"
    /\ UNCHANGED <<inputs, error, listing, promptChoices, prompted, workflowId, ref,
                   branch, remote, outcome>>

\* options.ref || (await Git.getCurrentBranchNameAsync())
ResolveRef ==
    /\ pc = "ref"
    /\ IF ~Falsy(optRef)
       THEN /\ ref' = optRef
            /\ pc' = "check"
            /\ UNCHANGED branchQueried
       ELSE /\ branchQueried' = TRUE
            /\ pc' = "branch"
            /\ UNCHANGED ref
    /\ UNCHANGED <<inputs, error, listing, promptChoices, prompted, workflowId, branch,
                   remote, outcome>>

\* Git.getCurrentBranchNameAsync resolves with the branch name.
BranchQueryReturns ==
    /\ pc = "branch"
    /\ \E b \in Branches : branch' = b /\ ref' = b
    /\ pc' = "check"
    /\ UNCHANGED <<inputs, error, listing, promptChoices, prompted, workflowId,
                   branchQueried, remote, outcome>>

\* Git.getCurrentBranchNameAsync rejects; the error leaves main().
BranchQueryFails ==
    /\ pc = "branch"
    /\ Throw("git")
    /\ UNCHANGED <<inputs, listing, resolution, remote, outcome>>

\* main() dispatching without validating the resolved id.
CheckAndDispatchNoValidation ==
    /\ pc = "check"
    /\ postCount' = postCount + 1
    /\ postedId' = workflowId
    /\ postedRef' = ref
    /\ pc' = "dispatching"
    /\ UNCHANGED <<inputs, error, listing, resolution, getCount, outcome>>

\* main(): the not-found check, then dispatchWorkflowAsync issues the POST.
CheckAndDispatch ==
    /\ pc = "check"
    /\ IF FalsyId(workflowId) \/ ~\E k \in 1..Len(workflows) : workflows[k].id = workflowId
       THEN /\ Throw("not-found")
            /\ UNCHANGED <<postCount, postedId, postedRef>>
       ELSE /\ postCount' = postCount + 1
            /\ postedId' = workflowId
            /\ postedRef' = ref
            /\ pc' = "dispatching"
            /\ UNCHANGED error
    /\ UNCHANGED <<inputs, listing, resolution, getCount, outcome>>

\* dispatchWorkflowAsync with process.exit(1) missing: it falls through to
\* logger.success.
DispatchResponseFallThrough ==
    /\ pc = "dispatching"
    /\ \E st \in Statuses :
          /\ status' = st
          /\ errorLogged' = (st # NoContent)
          /\ successLogged' = TRUE
          /\ exitCode' = 0
          /\ pc' = "done"
    /\ UNCHANGED <<inputs, error, listing, resolution, remote>>

\* The POST returns a response: 204 is success, anything else is logged and
\* the process exits with code 1.
DispatchResponse ==
    /\ pc = "dispatching"
    /\ \E st \in Statuses :
          /\ status' = st
          /\ IF st # NoContent
             THEN /\ errorLogged' = TRUE
                  /\ exitCode' = 1
                  /\ pc' = "exited"
                  /\ UNCHANGED successLogged
             ELSE /\ successLogged' = TRUE
                  /\ pc' = "done"
                  /\ UNCHANGED <<errorLogged, exitCode>>
    /\ UNCHANGED <<inputs, error, listing, resolution, remote>>

\* A failed POST sent a second time.
DispatchFailsRetryOnce ==
    /\ pc = "dispatching"
    /\ IF postCount < 2
       THEN pc' = "check" /\ UNCHANGED error
       ELSE Throw("post")
    /\ UNCHANGED <<inputs, listing, resolution, remote, outcome>>

\* The POST throws (network failure); the error leaves main().
DispatchFails ==
    /\ pc = "dispatching"
    /\ Throw("post")
    /\ UNCHANGED <<inputs, listing, resolution, remote, outcome>>

Next ==
    \/ MainStart
    \/ ListingResponse
    \/ ListingFails
    \/ \E i \in 1..Len(response) : PathExistsCompletes(i)
    \/ GetWorkflowsReturn
    \/ FindWorkflowId
    \/ PromptAnswer
    \/ ResolveRef
    \/ BranchQueryReturns
    \/ BranchQueryFails
    \/ CheckAndDispatch
    \/ DispatchResponse
    \/ DispatchFails

Spec == Init /\ [][Next]_vars

(* ----------------------------- properties ----------------------------- *)

\* The listing stage is over: getWorkflowsAsync has returned.
Listed ==
    \/ pc \in {"find", "prompt", "ref", "branch", "check", "dispatching", "done", "exited"}
    \/ pc = "failed" /\ error \in {"ci", "git", "not-found", "post"}

\* findWorkflowIdAsync has returned an id (or null) to main().
Resolved ==
    \/ pc \in {"ref", "branch", "check", "dispatching", "done", "exited"}
    \/ pc = "failed" /\ error \in {"git", "not-found", "post"}

NameSupplied == ~Falsy(workflowName)

RefSupplied == ~Falsy(optRef)

EqualIgnoringCase(s, t) == toLowerCase(s) = toLowerCase(t)

ConventionalPath(n) == <<DirLower>> \o n \o <<ExtLower>>

\* The workflow matches the name argument by name or by conventional path.
MatchesArgument(w) ==
    \/ EqualIgnoringCase(w.name, toLowerCase(workflowName))
    \/ EqualIgnoringCase(w.path, ConventionalPath(toLowerCase(workflowName)))

MatchingIndices == {k \in 1..Len(workflows) : MatchesArgument(workflows[k])}

\* The four eligibility conditions of a listing entry.
Eligible(w) == w.name # <<>> /\ w.path # <<>> /\ w.state = "active" /\ w.path \in fs

PositionInResponse(w) == CHOOSE p \in 1..Len(response) : response[p] = w

\* C1: with GITHUB_TOKEN absent the invocation fails with the token
\* configuration error and neither the listing GET nor the dispatch POST is
\* ever issued.
C1_NoTokenNoRemoteCall ==
    ~token =>
        /\ getCount = 0
        /\ postCount = 0
        /\ pc \in {"start", "failed"}
        /\ pc = "failed" => error = "token"

C1_Witness == ~token /\ pc = "failed" /\ error = "token"

\* C2: success is logged exactly when the dispatch response status is 204;
\* for any other status the error is logged, the process exits with code 1
\* and success is never logged.
C2_SuccessIffNoContent ==
    /\ successLogged <=> status = NoContent
    /\ status \notin {0, NoContent} =>
          /\ errorLogged
          /\ exitCode = 1
          /\ pc = "exited"
          /\ ~successLogged
    /\ status = NoContent => ~errorLogged /\ exitCode = 0 /\ pc = "done"

C2_Witness == status = 404 /\ errorLogged /\ exitCode = 1 /\ postCount = 1

\* C3: with a name supplied, whenever some workflow of the sorted eligible
\* list matches the argument (by name or conventional path, ignoring case),
\* the id returned, and then dispatched, is the id of the first match and is
\* never null.
C3_FirstMatchWins ==
    (NameSupplied /\ Resolved /\ MatchingIndices # {}) =>
        \E k \in MatchingIndices :
            /\ \A j \in 1..(k - 1) : j \notin MatchingIndices
            /\ workflowId = workflows[k].id
            /\ workflowId # NullId
            /\ postCount > 0 => postedId = workflows[k].id

C3_Witness ==
    /\ NameSupplied
    /\ postCount = 1
    /\ Cardinality(MatchingIndices) = 2
    /\ workflows[1].id = 2
    /\ postedId = 2

\* The name argument matches no workflow of the list that was returned.
NoMatch == NameSupplied /\ Resolved /\ MatchingIndices = {}

\* C4 as stated: a name matching no eligible workflow makes the invocation
\* fail with the not-found error, whatever the outcome of the branch query,
\* and no POST is issued.
C4_NotFoundWhateverTheBranchQuery ==
    NoMatch =>
        /\ postCount = 0
        /\ pc \notin {"dispatching", "done", "exited"}
        /\ pc = "failed" => error = "not-found"

\* C4 amended: a name matching no eligible workflow never leads to a POST;
\* the invocation fails with the not-found error when a ref was supplied or
\* the branch query succeeded, and with the branch query's own error when no
\* ref was supplied and that query failed.
C4_NotFoundOrBranchError ==
    NoMatch =>
        /\ postCount = 0
        /\ pc \notin {"dispatching", "done", "exited"}
        /\ pc = "failed" =>
              \/ error = "not-found"
              \/ error = "git" /\ ~RefSupplied /\ branchQueried /\ branch = Undefined
        /\ (pc = "failed" /\ (RefSupplied \/ branch # Undefined)) => error = "not-found"

C4_Witness ==
    /\ NoMatch
    /\ Len(workflows) > 0
    /\ pc = "failed"
    /\ error = "not-found"
    /\ branch # Undefined

\* No name was supplied and the CI indicator is set.
NoNameOnCI == Falsy(workflowName) /\ ci

\* C5 as stated: without a name on CI the invocation fails with a
\* configuration error, no remote call (GET or POST) is attempted and the
\* prompt is never presented.
C5_NoRemoteCallOnCI ==
    NoNameOnCI =>
        /\ getCount = 0
        /\ postCount = 0
        /\ ~prompted
        /\ pc = "failed" => error \in {"token", "ci"}

\* C5 amended: without a name on CI the prompt is never presented and no
\* POST is issued; the CI check runs only after the listing, so with the
\* token present the GET is issued first, and once the listing has completed
\* the invocation fails with the CI configuration error.
C5_NoPromptNoPostOnCI ==
    NoNameOnCI =>
        /\ postCount = 0
        /\ ~prompted
        /\ pc \in {"start", "listing", "filtering", "find", "failed"}
        /\ pc = "failed" => error \in {"token", "get", "ci"}
        /\ error = "ci" => getCount = 1 /\ filterAsyncSettled(results)
        /\ (token /\ pc # "start") => getCount = 1

C5_Witness ==
    /\ NoNameOnCI
    /\ pc = "failed"
    /\ error = "ci"
    /\ getCount = 1
    /\ Len(workflows) > 0

\* C6: a supplied --ref is the ref of the POST and the branch is then never
\* queried; only without a supplied ref is the branch queried, and its name
\* is then the ref of the POST.
C6_RefVerbatim ==
    /\ RefSupplied => ~branchQueried
    /\ postCount > 0 =>
          IF RefSupplied
          THEN postedRef = optRef
          ELSE branchQueried /\ branch # Undefined /\ postedRef = branch

C6_Witness == RefSupplied /\ postCount = 1 /\ postedRef = optRef /\ pc = "done"

\* C7: the returned list holds exactly the response entries with non-empty
\* name, non-empty path, state "active" and a path that exists locally, each
\* once.
C7_ExactlyEligible ==
    Listed =>
        /\ \A i \in 1..Len(response) :
              (\E k \in 1..Len(workflows) : workflows[k] = response[i])
                  <=> Eligible(response[i])
        /\ \A k \in 1..Len(workflows) :
              \E i \in 1..Len(response) : workflows[k] = response[i]
        /\ Len(workflows) = Cardinality({i \in 1..Len(response) : Eligible(response[i])})

C7_Witness ==
    /\ Listed
    /\ Len(workflows) = 1
    /\ \E i \in 1..Len(response) :
          /\ response[i].name # <<>>
          /\ response[i].path # <<>>
          /\ response[i].state = "active"
          /\ response[i].path \notin fs

\* C8: the returned list is sorted ascending by name under localeCompare,
\* entries with equal names keep their order of the listing, and the prompt
\* choices follow the same order.
C8_SortedStable ==
    Listed =>
        /\ \A i, j \in 1..Len(workflows) :
              i < j =>
                 /\ localeCompare(workflows[i].name, workflows[j].name) <= 0
                 /\ localeCompare(workflows[i].name, workflows[j].name) = 0 =>
                       PositionInResponse(workflows[i]) < PositionInResponse(workflows[j])
        /\ prompted =>
              /\ Len(promptChoices) = Len(workflows)
              /\ \A k \in 1..Len(workflows) :
                    /\ promptChoices[k].name = workflows[k].name
                    /\ promptChoices[k].value = workflows[k].id

C8_Witness ==
    /\ Listed
    /\ prompted
    /\ Len(workflows) = 2
    /\ workflows[1].name = workflows[2].name

\* What holds of the remote calls in every state.
OnePostLast ==
    /\ getCount <= 1
    /\ postCount <= 1
    /\ postCount = 1 =>
          /\ Listed
          /\ getCount = 1
          /\ ref # Undefined
          /\ postedRef = ref
          /\ ~FalsyId(workflowId)
          /\ \E k \in 1..Len(workflows) : workflows[k].id = workflowId
          /\ postedId = workflowId

\* What holds of every step: the POST leaves from the last stage only, and
\* a failed invocation makes no further call.
NoCallAfterFailure ==
    /\ postCount' # postCount => pc = "check"
    /\ getCount' # getCount => pc = "start"
    /\ pc = "failed" => pc' = "failed" /\ getCount' = getCount /\ postCount' = postCount

\* C9: the GET and the POST are each issued at most once; the POST is issued
\* only after the listing completed, the ref was resolved and the id was
\* resolved to a non-null id of the eligible list; after a failure no remote
\* call is made.
C9_LinearPipeline == []OnePostLast /\ [][NoCallAfterFailure]_vars

C9_Witness == pc = "failed" /\ error = "post" /\ postCount = 1 /\ prompted

\* C10: no later stage starts while an existence check is outstanding, and
\* the returned list depends only on the response and the working copy, not
\* on the order in which the checks completed.
C10_JoinBeforeContinuing ==
    /\ pc = "filtering" =>
          /\ workflows = <<>>
          /\ ~prompted
          /\ workflowId = NullId
          /\ ref = Undefined
          /\ postCount = 0
    /\ Listed =>
          /\ Len(results) = Len(response)
          /\ filterAsyncSettled(results)
          /\ {order[k] : k \in 1..Len(order)} =
                {i \in 1..Len(response) : NeedsCheck(response[i])}
          /\ workflows = Sort(SelectSeq(response, Eligible))

C10_Witness ==
    /\ Listed
    /\ Len(order) = 2
    /\ order[1] > order[2]
    /\ Len(workflows) = 2

====
